---- MODULE Spec2Model ----
(***************************************************************************)
(* The two Pulumi components of src/python/spoke.py, SpokeVpc and          *)
(* SpokeVerification, and the apply passes in which the provisioning      *)
(* engine carries out the resources they declare.                          *)
(*                                                                         *)
(* A behaviour follows ONE component through up to MaxPass passes: the     *)
(* component's constructor declares resources, the engine diffs each       *)
(* declaration against its checkpoint once the declaration's dependencies  *)
(* have resolved, and creates, updates or replaces it, several at a time.  *)
(***************************************************************************)
EXTENDS Integers, FiniteSets, Sequences, TLC

\* bounds of the model
MaxPass == 2
MaxSubnets == 2

\* inputs the constructors are called with, and what the lookups may answer
Components == {"SpokeVpc", "SpokeVerification"}
Names == {"spoke1", "spoke2"}
CidrBlocks == {"10.0.0.0/16", "10.1.0.0/16"}
TgwIds == {"tgw-a", "tgw-b"}
Amis == {"ami-1", "ami-2"}
TgwRouteTableId == "tgw-rtb"
HubIgwId == "igw-hub"
SpokeVpcId == "vpc-spoke"
InstanceSubnetId == "subnet-workload"

VARIABLES
    comp,        \* the component under construction
    name,        \* its name argument
    cidr,        \* SpokeVpcArgs.vpc_cidr_block
    tgwId,       \* SpokeVpcArgs.tgw_id (may differ from one pass to the next)
    latestAmi,   \* the image get_ami(most_recent=True) answers with
    nPrivate,    \* how many subnets carry the tag <name>-vpc-private-*
    nTgw,        \* how many subnets carry the tag <name>-vpc-tgw-*
    sharedRt,    \* whether the private subnets share one route table
    pass,        \* number of the current apply pass
    pc,          \* position of the constructor
    privateIds,  \* private_subnets.ids (workload_subnet_ids)
    tgwSubnetIds,\* tgw_subnets.ids
    ami,         \* amazon_linux_2.id
    contRuns,    \* executions of the joined continuation in this pass
    declared,    \* resources the program has declared in this pass
    status,      \* engine's progress on each resource in this pass
    op,          \* operation the engine chose for each resource in this pass
    state,       \* checkpoint: the inputs each resource was last applied with
    cur,         \* checkpoint: generation of each resource's physical copy
    live,        \* generations of each resource that exist in the cloud
    deleted,     \* resources whose physical copy was deleted in this pass
    aborted,     \* a creation was rejected in this pass
    result,      \* "running", "succeeded" or "failed"
    prev         \* arguments and lookup answers of the previous pass

vars == <<comp, name, cidr, tgwId, latestAmi, nPrivate, nTgw, sharedRt, pass, pc,
          privateIds, tgwSubnetIds, ami, contRuns, declared, status, op, state,
          cur, live, deleted, aborted, result, prev>>

----------------------------------------------------------------------------
\* Subnets and resources

NoSubnet == [tier |-> "none", az |-> 0]
Subnet(t, i) == [tier |-> t, az |-> i]
PrivateSubnets(n) == {Subnet("private", i) : i \in 1..n}
TgwSubnets(n) == {Subnet("tgw", i) : i \in 1..n}
AllSubnets == PrivateSubnets(MaxSubnets) \cup TgwSubnets(MaxSubnets)

Res(k) == [kind |-> k, sub |-> NoSubnet]
Vpc == Res("vpc")
TgwAttachment == Res("tgw-vpc-attachment")
RouteTableAssoc == Res("tgw-route-table-assoc")
RouteTablePropagation == Res("tgw-route-table-propagation")
Route(s) == [kind |-> "tgw-route", sub |-> s]
Sg == Res("instance-sg")
Instance == Res("instance")
HttpPath == Res("network-insights-path-http")
HttpsPath == Res("network-insights-path-https")
HttpAnalysis == Res("network-insights-analysis-http")
HttpsAnalysis == Res("network-insights-analysis-https")

Routes == {Route(s) : s \in AllSubnets}
VpcResources == {Vpc, TgwAttachment, RouteTableAssoc, RouteTablePropagation} \cup Routes
VerificationResources == {Sg, Instance, HttpPath, HttpsPath, HttpAnalysis, HttpsAnalysis}
Resources == VpcResources \cup VerificationResources

\* the id attribute of a resource's current physical copy
Id(r) == [of |-> r.kind, gen |-> cur[r]]

\* aws.ec2.get_route_table(subnet_id=...)
GetRouteTable(s) == IF sharedRt THEN [rtb |-> "main", az |-> 0]
                    ELSE [rtb |-> s.tier, az |-> s.az]

----------------------------------------------------------------------------
\* The resource declarations of SpokeVerification.__init__

SecurityGroupDecl ==
    [args |-> [description |-> "Allow outbound HTTP/S to any destination",
               vpc_id |-> SpokeVpcId,
               egress |-> {[cidr_blocks |-> {"0.0.0.0/0"}, from_port |-> 80,
                            to_port |-> 80, protocol |-> "tcp"],
                           [cidr_blocks |-> {"0.0.0.0/0"}, from_port |-> 443,
                            to_port |-> 443, protocol |-> "tcp"]}],
     uses |-> {},
     depends_on |-> {},
     delete_before_replace |-> FALSE,
     force_new |-> {"description", "vpc_id"}]

\* the instance given a security group id written out instead of sg.id
InstanceDeclLiteralSg ==
    [args |-> [ami |-> ami,
               instance_type |-> "t2.micro",
               vpc_security_group_ids |-> {[of |-> "instance-sg", gen |-> 1]},
               subnet_id |-> InstanceSubnetId,
               tags |-> [Name |-> <<name, "instance">>]],
     uses |-> {},
     depends_on |-> {},
     delete_before_replace |-> FALSE,
     force_new |-> {"ami", "subnet_id"}]

InstanceDecl ==
    [args |-> [ami |-> ami,
               instance_type |-> "t2.micro",
               vpc_security_group_ids |-> {Id(Sg)},
               subnet_id |-> InstanceSubnetId,
               tags |-> [Name |-> <<name, "instance">>]],
     uses |-> {Sg},
     depends_on |-> {},
     delete_before_replace |-> FALSE,
     force_new |-> {"ami", "subnet_id"}]

HttpPathDecl ==
    [args |-> [destination |-> HubIgwId,
               destination_port |-> 80,
               source |-> Id(Instance),
               protocol |-> "tcp"],
     uses |-> {Instance},
     depends_on |-> {},
     delete_before_replace |-> FALSE,
     force_new |-> {"destination", "destination_port", "source", "protocol"}]

HttpAnalysisDecl ==
    [args |-> [network_insights_path_id |-> Id(HttpPath),
               wait_for_completion |-> FALSE],
     uses |-> {HttpPath},
     depends_on |-> {Instance},
     delete_before_replace |-> FALSE,
     force_new |-> {"network_insights_path_id"}]

HttpsPathDecl ==
    [args |-> [destination |-> HubIgwId,
               destination_port |-> 443,
               source |-> Id(Instance),
               protocol |-> "tcp"],
     uses |-> {Instance},
     depends_on |-> {},
     delete_before_replace |-> FALSE,
     force_new |-> {"destination", "destination_port", "source", "protocol"}]

\* built from http_path.id, as the source has it
HttpsAnalysisDecl ==
    [args |-> [network_insights_path_id |-> Id(HttpPath),
               wait_for_completion |-> FALSE],
     uses |-> {HttpPath},
     depends_on |-> {Instance},
     delete_before_replace |-> FALSE,
     force_new |-> {"network_insights_path_id"}]

\* register_outputs of SpokeVerification
VerificationOutputs == [http_analysis |-> HttpAnalysis, https_analysis |-> HttpsAnalysis]

----------------------------------------------------------------------------
\* The resource declarations of SpokeVpc

\* the VPC with a third, public subnet spec and one NAT gateway
VpcDeclWithPublic ==
    [args |-> [cidr_block |-> cidr,
               subnet_specs |-> <<[name |-> "private", cidr_mask |-> 28, type |-> "PRIVATE"],
                                  [name |-> "tgw", cidr_mask |-> 28, type |-> "ISOLATED"],
                                  [name |-> "public", cidr_mask |-> 28, type |-> "PUBLIC"]>>,
               nat_gateways |-> [strategy |-> "SINGLE"]],
     uses |-> {},
     depends_on |-> {},
     delete_before_replace |-> FALSE,
     force_new |-> {"cidr_block", "subnet_specs"}]

VpcDecl ==
    [args |-> [cidr_block |-> cidr,
               subnet_specs |-> <<[name |-> "private", cidr_mask |-> 28, type |-> "ISOLATED"],
                                  [name |-> "tgw", cidr_mask |-> 28, type |-> "ISOLATED"]>>,
               nat_gateways |-> [strategy |-> "NONE"]],
     uses |-> {},
     depends_on |-> {},
     delete_before_replace |-> FALSE,
     force_new |-> {"cidr_block", "subnet_specs"}]

\* the attachment tagged with the number of the deployment
TgwAttachmentArgsStamped ==
    [transit_gateway_id |-> tgwId,
     subnet_ids |-> tgwSubnetIds,
     vpc_id |-> Id(Vpc),
     transit_gateway_default_route_table_association |-> FALSE,
     transit_gateway_default_route_table_propagation |-> FALSE,
     tags |-> [Name |-> <<name, "tgw-vpc-attachment">>, Deployment |-> pass]]

TgwAttachmentArgs ==
    [transit_gateway_id |-> tgwId,
     subnet_ids |-> tgwSubnetIds,
     vpc_id |-> Id(Vpc),
     transit_gateway_default_route_table_association |-> FALSE,
     transit_gateway_default_route_table_propagation |-> FALSE,
     tags |-> [Name |-> <<name, "tgw-vpc-attachment">>]]

\* the attachment left to the engine's default, create-before-delete
TgwAttachmentOptsDefaultOrder == [delete_before_replace |-> FALSE, depends_on |-> {Vpc}]

TgwAttachmentOpts == [delete_before_replace |-> TRUE, depends_on |-> {Vpc}]

TgwAttachmentDecl ==
    [args |-> TgwAttachmentArgs,
     uses |-> {},
     depends_on |-> TgwAttachmentOpts.depends_on,
     delete_before_replace |-> TgwAttachmentOpts.delete_before_replace,
     force_new |-> {"transit_gateway_id", "vpc_id"}]

\* the association given an attachment id written out instead of tgw_attachment.id
RouteTableAssocDeclLiteralId ==
    [args |-> [transit_gateway_attachment_id |-> [of |-> "tgw-vpc-attachment", gen |-> 1],
               transit_gateway_route_table_id |-> TgwRouteTableId],
     uses |-> {},
     depends_on |-> {},
     delete_before_replace |-> FALSE,
     force_new |-> {"transit_gateway_attachment_id", "transit_gateway_route_table_id"}]

RouteTableAssocDecl ==
    [args |-> [transit_gateway_attachment_id |-> Id(TgwAttachment),
               transit_gateway_route_table_id |-> TgwRouteTableId],
     uses |-> {TgwAttachment},
     depends_on |-> {},
     delete_before_replace |-> FALSE,
     force_new |-> {"transit_gateway_attachment_id", "transit_gateway_route_table_id"}]

RouteTablePropagationDecl ==
    [args |-> [transit_gateway_attachment_id |-> Id(TgwAttachment),
               transit_gateway_route_table_id |-> TgwRouteTableId],
     uses |-> {TgwAttachment},
     depends_on |-> {},
     delete_before_replace |-> FALSE,
     force_new |-> {"transit_gateway_attachment_id", "transit_gateway_route_table_id"}]

RouteArgs(s) ==
    [route_table_id |-> GetRouteTable(s),
     destination_cidr_block |-> "0.0.0.0/0",
     transit_gateway_id |-> tgwId]

\* the route without its edge to the attachment
RouteOptsNoEdge(s) == [delete_before_replace |-> FALSE, depends_on |-> {}]

RouteOpts(s) == [delete_before_replace |-> FALSE, depends_on |-> {TgwAttachment}]

RouteDecl(s) ==
    [args |-> RouteArgs(s),
     uses |-> {},
     depends_on |-> RouteOpts(s).depends_on,
     delete_before_replace |-> RouteOpts(s).delete_before_replace,
     force_new |-> {"route_table_id", "destination_cidr_block"}]

\* the loop run over the subnets of both lookups
RouteSubnetsAll(private_subnet_ids, tgw_subnet_ids) == private_subnet_ids \cup tgw_subnet_ids

\* the subnets the loop of _create_tgw_attachment_resources defines a route for
RouteSubnets(private_subnet_ids, tgw_subnet_ids) == private_subnet_ids

Decl(r) ==
    CASE r = Vpc -> VpcDecl
      [] r = TgwAttachment -> TgwAttachmentDecl
      [] r = RouteTableAssoc -> RouteTableAssocDecl
      [] r = RouteTablePropagation -> RouteTablePropagationDecl
      [] r = Sg -> SecurityGroupDecl
      [] r = Instance -> InstanceDecl
      [] r = HttpPath -> HttpPathDecl
      [] r = HttpsPath -> HttpsPathDecl
      [] r = HttpAnalysis -> HttpAnalysisDecl
      [] r = HttpsAnalysis -> HttpsAnalysisDecl
      [] OTHER -> RouteDecl(r.sub)

\* what a resource waits for: explicit depends_on edges and the resources whose
\* attributes its arguments use
Deps(r) == Decl(r).depends_on \cup Decl(r).uses

----------------------------------------------------------------------------
\* The engine's view of a pass

Resolved(r) == status[r] = "done"
Started(r) == status[r] \in {"applying", "done", "failed"} /\ op[r] # "same"
Running == result = "running" /\ ~aborted

\* the physical copies of r that predate this pass
OldGens(r) == {g \in live[r] : g < pass}

\* resources whose arguments use an attribute of r
Users(r) == {d \in Resources : r \in Decl(d).uses}

\* the lookup filtered by tag alone, without the vpc-id filter
FilterByTagOnly == {}

\* the outputs the invokes of SpokeVpc.__init__ take as filter values
PrivateSubnetsFilterUses == {Vpc}
TgwSubnetsFilterUses == {Vpc}
\* the resources whose outputs Output.all joins
JoinInputs == {Vpc}

Init ==
    /\ comp \in Components
    /\ name \in Names
    /\ pass = 1
    /\ pc = "start"
    /\ IF comp = "SpokeVpc"
       THEN /\ cidr \in CidrBlocks
            /\ tgwId \in TgwIds
            /\ nPrivate \in 0..MaxSubnets
            /\ nTgw \in 0..MaxSubnets
            /\ sharedRt \in (IF nPrivate >= 2 THEN BOOLEAN ELSE {FALSE})
            /\ latestAmi = "ami-1"
       ELSE /\ cidr = "10.0.0.0/16"
            /\ tgwId = "tgw-a"
            /\ nPrivate = 0
            /\ nTgw = 0
            /\ sharedRt = FALSE
            /\ latestAmi \in Amis
    /\ privateIds = {}
    /\ tgwSubnetIds = {}
    /\ ami = "none"
    /\ contRuns = 0
    /\ declared = {}
    /\ status = [r \in Resources |-> "undeclared"]
    /\ op = [r \in Resources |-> "none"]
    /\ state = [r \in Resources |-> [absent |-> TRUE]]
    /\ cur = [r \in Resources |-> 0]
    /\ live = [r \in Resources |-> {}]
    /\ deleted = {}
    /\ aborted = FALSE
    /\ result = "running"
    /\ prev = [tgwId |-> tgwId, ami |-> latestAmi]

Declare(rs) ==
    /\ declared' = declared \cup rs
    /\ status' = [r \in Resources |-> IF r \in rs THEN "pending" ELSE status[r]]

envVars == <<comp, name, cidr, tgwId, latestAmi, nPrivate, nTgw, sharedRt, pass, prev>>
engineVars == <<op, state, cur, live, deleted, aborted, result>>

----------------------------------------------------------------------------
\* SpokeVpc.__init__ and its continuation

DeclareVpc ==
    /\ comp = "SpokeVpc" /\ Running /\ pc = "start"
    /\ Declare({Vpc})
    /\ pc' = "lookup_private"
    /\ UNCHANGED <<envVars, engineVars, privateIds, tgwSubnetIds, ami, contRuns>>

LookupPrivateSubnets ==
    /\ comp = "SpokeVpc" /\ Running /\ pc = "lookup_private"
    /\ \A r \in PrivateSubnetsFilterUses : Resolved(r)
    /\ privateIds' = PrivateSubnets(nPrivate)
    /\ pc' = "lookup_tgw"
    /\ UNCHANGED <<envVars, engineVars, tgwSubnetIds, ami, contRuns, declared, status>>

LookupTgwSubnets ==
    /\ comp = "SpokeVpc" /\ Running /\ pc = "lookup_tgw"
    /\ \A r \in TgwSubnetsFilterUses : Resolved(r)
    /\ tgwSubnetIds' = TgwSubnets(nTgw)
    /\ pc' = "join"
    /\ UNCHANGED <<envVars, engineVars, privateIds, ami, contRuns, declared, status>>

\* lambda args: self._create_tgw_attachment_resources(args[0], args[1], args[2])
CreateTgwAttachmentResources ==
    /\ comp = "SpokeVpc" /\ Running /\ pc = "join"
    /\ \A r \in JoinInputs : Resolved(r)
    /\ Declare({TgwAttachment, RouteTableAssoc, RouteTablePropagation}
               \cup {Route(s) : s \in RouteSubnets(privateIds, tgwSubnetIds)})
    /\ contRuns' = contRuns + 1
    /\ pc' = "done"
    /\ UNCHANGED <<envVars, engineVars, privateIds, tgwSubnetIds, ami>>

\* SpokeVerification.__init__
SpokeVerificationInit ==
    /\ comp = "SpokeVerification" /\ Running /\ pc = "start"
    /\ ami' = latestAmi
    /\ Declare(VerificationResources)
    /\ pc' = "done"
    /\ UNCHANGED <<envVars, engineVars, privateIds, tgwSubnetIds, contRuns>>

----------------------------------------------------------------------------
\* The engine: diff, create, update, replace, delete

HasCopy(r) == cur[r] # 0
NeedsReplace(r) == \E f \in Decl(r).force_new : state[r][f] # Decl(r).args[f]

\* replaced copies the engine deletes once everything else has been applied
Stale(r) == IF op[r] = "replace" /\ status[r] = "done" THEN OldGens(r) ELSE {}

\* what the cloud refuses: an attachment without subnets or beside another
\* attachment of the VPC, a second route for a destination of one route table
Accepts(r) ==
    CASE r = TgwAttachment ->
            /\ Decl(r).args.subnet_ids # {}
            /\ op[r] \in {"create", "replace"} => live[r] = {pass}
      [] r \in Routes ->
            op[r] \in {"create", "replace"} =>
                \A r2 \in Routes \ {r} :
                    (live[r2] # {} /\ ~(status[r2] = "applying" /\ op[r2] # "update"))
                        => state[r2].route_table_id # Decl(r).args.route_table_id
      [] OTHER -> TRUE

\* the engine takes up a declaration whose dependencies have resolved
Begin(r) ==
    /\ Running
    /\ r \in declared /\ status[r] = "pending"
    /\ \A d \in Deps(r) : Resolved(d)
    /\ IF ~HasCopy(r)
       THEN /\ status' = [status EXCEPT ![r] = "applying"]
            /\ op' = [op EXCEPT ![r] = "create"]
            /\ live' = [live EXCEPT ![r] = @ \cup {pass}]
       ELSE IF state[r] = Decl(r).args /\ live[r] # {}
       THEN /\ status' = [status EXCEPT ![r] = "done"]
            /\ op' = [op EXCEPT ![r] = "same"]
            /\ live' = live
       ELSE IF NeedsReplace(r) \/ live[r] = {}
       THEN /\ op' = [op EXCEPT ![r] = "replace"]
            /\ IF Decl(r).delete_before_replace /\ OldGens(r) # {}
               THEN /\ status' = [status EXCEPT ![r] = "deleting"]
                    /\ live' = live
               ELSE /\ status' = [status EXCEPT ![r] = "applying"]
                    /\ live' = [live EXCEPT ![r] = @ \cup {pass}]
       ELSE /\ status' = [status EXCEPT ![r] = "applying"]
            /\ op' = [op EXCEPT ![r] = "update"]
            /\ live' = live
    /\ UNCHANGED <<envVars, pc, privateIds, tgwSubnetIds, ami, contRuns, declared,
                   state, cur, deleted, aborted, result>>

\* the engine deletes a physical copy: the old copy of a resource replaced
\* delete-before-create, first the old copies of the resources that use it, or,
\* at the end of the pass, a copy that has been replaced
Delete(r) ==
    /\ Running
    /\ OldGens(r) # {}
    /\ \/ /\ status[r] = "deleting"
          /\ \A d \in Users(r) : OldGens(d) = {}
          /\ status' = [status EXCEPT ![r] = "pending"]
       \/ /\ status[r] = "pending"
          /\ \E a \in Decl(r).uses : status[a] = "deleting"
          /\ \A d \in Users(r) : OldGens(d) = {}
          /\ status' = status
       \/ /\ Stale(r) # {}
          /\ pc = "done"
          /\ \A d \in declared : Resolved(d)
          /\ \A d \in Users(r) : Stale(d) = {}
          /\ status' = status
    /\ live' = [live EXCEPT ![r] = @ \ OldGens(r)]
    /\ deleted' = deleted \cup {r}
    /\ UNCHANGED <<envVars, pc, privateIds, tgwSubnetIds, ami, contRuns, declared,
                   op, state, cur, aborted, result>>

\* the cloud accepts the operation
Complete(r) ==
    /\ result = "running"
    /\ status[r] = "applying"
    /\ Accepts(r)
    /\ status' = [status EXCEPT ![r] = "done"]
    /\ state' = [state EXCEPT ![r] = Decl(r).args]
    /\ cur' = [cur EXCEPT ![r] = IF op[r] = "update" THEN @ ELSE pass]
    /\ UNCHANGED <<envVars, pc, privateIds, tgwSubnetIds, ami, contRuns, declared,
                   op, live, deleted, aborted, result>>

\* the cloud rejects the operation: the pass is aborted
Reject(r) ==
    /\ result = "running"
    /\ status[r] = "applying"
    /\ status' = [status EXCEPT ![r] = "failed"]
    /\ live' = [live EXCEPT ![r] = IF op[r] = "update" THEN @ ELSE @ \ {pass}]
    /\ aborted' = TRUE
    /\ UNCHANGED <<envVars, pc, privateIds, tgwSubnetIds, ami, contRuns, declared,
                   op, state, cur, deleted, result>>

PassComplete ==
    /\ pc = "done"
    /\ \A r \in declared : Resolved(r)
    /\ \A r \in Resources : Stale(r) = {}

FinishPass ==
    /\ result = "running"
    /\ \A r \in Resources : status[r] # "applying"
    /\ aborted \/ PassComplete
    /\ result' = IF aborted THEN "failed" ELSE "succeeded"
    /\ UNCHANGED <<envVars, pc, privateIds, tgwSubnetIds, ami, contRuns, declared,
                   status, op, state, cur, live, deleted, aborted>>

\* the program is run again, perhaps with another transit gateway, perhaps after
\* a newer image has been published
NextPass ==
    /\ result = "succeeded"
    /\ pass < MaxPass
    /\ pass' = pass + 1
    /\ tgwId' \in (IF comp = "SpokeVpc" THEN TgwIds ELSE {tgwId})
    /\ latestAmi' \in (IF comp = "SpokeVerification" THEN Amis ELSE {latestAmi})
    /\ prev' = [tgwId |-> tgwId, ami |-> latestAmi]
    /\ pc' = "start"
    /\ privateIds' = {}
    /\ tgwSubnetIds' = {}
    /\ ami' = "none"
    /\ contRuns' = 0
    /\ declared' = {}
    /\ status' = [r \in Resources |-> "undeclared"]
    /\ op' = [r \in Resources |-> "none"]
    /\ deleted' = {}
    /\ aborted' = FALSE
    /\ result' = "running"
    /\ UNCHANGED <<comp, name, cidr, nPrivate, nTgw, sharedRt, state, cur, live>>

Next ==
    \/ DeclareVpc
    \/ LookupPrivateSubnets
    \/ LookupTgwSubnets
    \/ CreateTgwAttachmentResources
    \/ SpokeVerificationInit
    \/ \E r \in Resources : Begin(r)
    \/ \E r \in Resources : Delete(r)
    \/ \E r \in Resources : Complete(r)
    \/ \E r \in Resources : Reject(r)
    \/ FinishPass
    \/ NextPass

Spec == Init /\ [][Next]_vars

\* the operations of the current pass
Ops == {r \in Resources : op[r] \notin {"none", "same"}} \cup deleted

----------------------------------------------------------------------------
\* Properties

\* the path an analysis analyses: the one whose id it was given
PathOf(a) == CHOOSE p \in {HttpPath, HttpsPath} : Id(p) = Decl(a).args.network_insights_path_id

\* C1: a spoke VPC never has more than one transit-gateway attachment, and the
\* creation of a replacement attachment begins only once the old one is deleted.
C1_AtMostOneAttachment ==
    /\ Cardinality(live[TgwAttachment]) <= 1
    /\ (status[TgwAttachment] = "applying" /\ op[TgwAttachment] = "replace")
           => OldGens(TgwAttachment) = {}

\* a replacement attachment is being created, its predecessor deleted in this pass
C1_Witness ==
    /\ pass >= 2
    /\ op[TgwAttachment] = "replace"
    /\ status[TgwAttachment] = "applying"
    /\ TgwAttachment \in deleted
    /\ live[TgwAttachment] = {pass}

\* C2: the joined continuation runs at most once in a pass and exactly once in a
\* pass that succeeds, never before the VPC's output and both lookups have
\* resolved; no subnet lookup runs before the VPC's output has resolved.
C2_ContinuationOnceAfterInputs ==
    comp = "SpokeVpc" =>
        /\ contRuns <= 1
        /\ pc \in {"lookup_tgw", "join", "done"} => Resolved(Vpc)
        /\ contRuns = 1 => /\ pc = "done"
                           /\ Resolved(Vpc)
                           /\ privateIds = PrivateSubnets(nPrivate)
                           /\ tgwSubnetIds = TgwSubnets(nTgw)
        /\ pc = "done" => contRuns = 1
        /\ result = "succeeded" => contRuns = 1

\* the continuation has run, on non-empty lookups, in a pass that then succeeded
C2_Witness ==
    /\ comp = "SpokeVpc"
    /\ contRuns = 1
    /\ privateIds # {} /\ tgwSubnetIds # {}
    /\ result = "succeeded"

\* C3: every route to the transit gateway declares an edge to the attachment, and
\* the engine starts on no route before the attachment has been applied.
C3_RouteAfterAttachment ==
    \A s \in AllSubnets :
        /\ Route(s) \in declared => TgwAttachment \in RouteOpts(s).depends_on
        /\ Started(Route(s)) => Resolved(TgwAttachment)

\* a route is being created
C3_Witness ==
    \E s \in AllSubnets : status[Route(s)] = "applying" /\ op[Route(s)] = "create"

\* C4: http_analysis analyses the path to port 80 and https_analysis the path to
\* port 443, both paths from the same instance to the same gateway.
C4_OneAnalysisPerPort ==
    (comp = "SpokeVerification" /\ pc = "done") =>
        /\ DOMAIN VerificationOutputs = {"http_analysis", "https_analysis"}
        /\ Decl(PathOf(VerificationOutputs.http_analysis)).args.destination_port = 80
        /\ Decl(PathOf(VerificationOutputs.https_analysis)).args.destination_port = 443
        /\ Decl(PathOf(VerificationOutputs.http_analysis)).args.source
               = Decl(PathOf(VerificationOutputs.https_analysis)).args.source
        /\ Decl(PathOf(VerificationOutputs.http_analysis)).args.destination
               = Decl(PathOf(VerificationOutputs.https_analysis)).args.destination

\* C5, as stated: a pass after a successful pass, run with the arguments of that
\* pass, performs no operation.
C5_RerunUnchangedArgsNoOps ==
    (pass >= 2 /\ tgwId = prev.tgwId) => Ops = {}

\* C5, amended: a pass after a successful pass, run with the arguments of that
\* pass and with the image lookup answering as it did, performs no operation.
C5_RerunUnchangedNoOps ==
    (pass >= 2 /\ tgwId = prev.tgwId /\ latestAmi = prev.ami) => Ops = {}

\* a second pass has succeeded with nothing changed, for either component
C5_Witness ==
    /\ pass >= 2
    /\ tgwId = prev.tgwId /\ latestAmi = prev.ami
    /\ result = "succeeded"
    /\ declared # {}
    /\ \A r \in declared : op[r] = "same"

\* C6: a pass in which a subnet lookup answered with no subnet does not succeed.
C6_EmptyLookupIsFatal ==
    (comp = "SpokeVpc" /\ result = "succeeded") => (privateIds # {} /\ tgwSubnetIds # {})

\* the shape C7 asks of the arguments of a VPC
TwoIsolatedSubnetSpecs(a) ==
    /\ Len(a.subnet_specs) = 2
    /\ a.subnet_specs[1].name = "private"
    /\ a.subnet_specs[2].name = "tgw"
    /\ \A i \in 1..Len(a.subnet_specs) : a.subnet_specs[i].type = "ISOLATED"
    /\ a.nat_gateways.strategy = "NONE"

\* C7: for every name and CIDR block the VPC is declared, and recorded once it is
\* created, with exactly the two subnet specs "private" and "tgw", both ISOLATED,
\* and with NAT gateway strategy NONE.
C7_TwoIsolatedSubnetSpecs ==
    /\ Vpc \in declared => TwoIsolatedSubnetSpecs(Decl(Vpc).args)
    /\ HasCopy(Vpc) => TwoIsolatedSubnetSpecs(state[Vpc])

\* the VPC has been created
C7_Witness == HasCopy(Vpc) /\ status[Vpc] = "done" /\ op[Vpc] = "create"

\* the default routes to the transit gateway that exist in a route table
TgwDefaultRoutes(rt) ==
    {r \in Routes : /\ HasCopy(r) /\ live[r] # {}
                    /\ state[r].route_table_id = rt
                    /\ state[r].destination_cidr_block = "0.0.0.0/0"
                    /\ state[r].transit_gateway_id = tgwId}

\* C8: after a successful pass the route table of every private subnet the lookup
\* answered holds exactly one default route to the transit gateway, and no route
\* is defined for a tgw subnet.
C8_DefaultRoutePerWorkloadSubnet ==
    (comp = "SpokeVpc" /\ result = "succeeded") =>
        /\ \A s \in privateIds : Cardinality(TgwDefaultRoutes(GetRouteTable(s))) = 1
        /\ \A s \in privateIds : Route(s) \in TgwDefaultRoutes(GetRouteTable(s))
        /\ \A s \in TgwSubnets(MaxSubnets) : Route(s) \notin declared /\ live[Route(s)] = {}

\* a pass has succeeded with as many private subnets as the model allows
C8_Witness ==
    /\ comp = "SpokeVpc" /\ result = "succeeded"
    /\ Cardinality(privateIds) = MaxSubnets
    /\ tgwSubnetIds # {}

\* C9: the engine starts on no resource before the resources it depends on have
\* been applied, whatever it runs in parallel.
C9_NoStartBeforeDependencies ==
    /\ \A r \in Resources : Started(r) => \A d \in Deps(r) : Resolved(d)
    /\ Started(RouteTableAssoc) => Resolved(TgwAttachment)
    /\ Started(RouteTablePropagation) => Resolved(TgwAttachment)
    /\ Started(TgwAttachment) => Resolved(Vpc)
    /\ Started(Instance) => Resolved(Sg)
    /\ Started(HttpAnalysis) => Resolved(Instance) /\ Resolved(PathOf(HttpAnalysis))
    /\ Started(HttpsAnalysis) => Resolved(Instance) /\ Resolved(PathOf(HttpsAnalysis))

\* both analyses are being created at once
C9_Witness ==
    /\ status[HttpAnalysis] = "applying" /\ status[HttpsAnalysis] = "applying"

\* r is declared to need d, directly or through another resource
DependsOn(r, d) ==
    \/ d = Vpc /\ r \in VpcResources \ {Vpc}
    \/ d = TgwAttachment /\ r \in {RouteTableAssoc, RouteTablePropagation} \cup Routes
    \/ d = Sg /\ r \in VerificationResources \ {Sg}
    \/ d = Instance /\ r \in {HttpPath, HttpsPath, HttpAnalysis, HttpsAnalysis}
    \/ d = HttpPath /\ r \in {HttpAnalysis, HttpsAnalysis}

\* C10: once a creation has been rejected the pass cannot succeed, the engine
\* stops, no resource that depends on the rejected one is or has been started,
\* and the continuation has not run if the VPC was rejected.
C10_RejectionState ==
    \A d \in Resources : status[d] = "failed" =>
        /\ aborted
        /\ result # "succeeded"
        /\ result = "running" => (~ENABLED (\E r \in Resources : Begin(r)))
        /\ \A r \in Resources : DependsOn(r, d) => status[r] \in {"undeclared", "pending"}
        /\ d = Vpc => (contRuns = 0 /\ pc = "lookup_private")

\* C10 with "never retried": a rejected resource stays rejected for the rest of
\* the pass, which ends failed
C10_RejectionIsFinal ==
    /\ []C10_RejectionState
    /\ [][\A d \in Resources : status[d] = "failed" =>
              /\ status'[d] = "failed"
              /\ result' # result => result' = "failed"]_vars

\* the attachment has been rejected and the pass has ended
C10_Witness ==
    /\ status[TgwAttachment] = "failed"
    /\ result = "failed"
    /\ status[RouteTableAssoc] = "pending"
====
